---- MODULE Spec2Model ----
(***************************************************************************)
(* Autoregressive key/value cache protocol of                              *)
(* MultiHeadDotProductAttention.__call__ and the data flow of              *)
(* DecoderLayer.__call__ (src/MaxText/layers/llama2.py).                   *)
(*                                                                         *)
(* The model starts where the projected tensors `query`, `key`, `value`    *)
(* exist (line 150): projection and rotary embedding live in layers.models *)
(* and are inputs here.  A tensor is a record [shape, at]: a 4-tuple of    *)
(* dimension sizes and a function from 0-based index 4-tuples to integers. *)
(***************************************************************************)
EXTENDS Integers, Sequences, FiniteSets, TLC

\* ------------------------------------------------------------------ bounds
\* Longest sequence / cache time length of a session.
MaxLen == 3
\* Decode steps a session may issue beyond the time length of its cache.
MaxOverrun == 1
\* Longest sequence / cache time length of a session of ScenarioSpec.
ScenarioLen == 4

\* ----------------------------------------------------------------- tensors
Idx(s) == (0 .. s[1] - 1) \X (0 .. s[2] - 1) \X (0 .. s[3] - 1) \X (0 .. s[4] - 1)

\* Python's None for an optional tensor argument.
None == [shape |-> <<0, 0, 0, 0>>, at |-> [i \in Idx(<<0, 0, 0, 0>>) |-> 0]]

IsNone(x) == x.shape = <<0, 0, 0, 0>>

\* jnp.zeros(shape)
zeros(s) == [shape |-> s, at |-> [i \in Idx(s) |-> 0]]

\* Broadcasting of one dimension: equal sizes, or one of them 1; -1 = error.
BDim(a, b) == IF a = b THEN a ELSE IF a = 1 THEN b ELSE IF b = 1 THEN a ELSE -1

BShape(s, t) == <<BDim(s[1], t[1]), BDim(s[2], t[2]), BDim(s[3], t[3]), BDim(s[4], t[4])>>

Compatible(s, t) == \A n \in 1 .. 4 : BDim(s[n], t[n]) # -1

BIdx(i, s) ==
  <<IF s[1] = 1 THEN 0 ELSE i[1], IF s[2] = 1 THEN 0 ELSE i[2],
    IF s[3] = 1 THEN 0 ELSE i[3], IF s[4] = 1 THEN 0 ELSE i[4]>>

\* x + y and x * y with broadcasting
Add(x, y) ==
  [shape |-> BShape(x.shape, y.shape),
   at |-> [i \in Idx(BShape(x.shape, y.shape)) |->
             x.at[BIdx(i, x.shape)] + y.at[BIdx(i, y.shape)]]]

Mul(x, y) ==
  [shape |-> BShape(x.shape, y.shape),
   at |-> [i \in Idx(BShape(x.shape, y.shape)) |->
             x.at[BIdx(i, x.shape)] * y.at[BIdx(i, y.shape)]]]

\* swap_dims: [batch, length, heads, head_dim] -> [batch, heads, head_dim, length]
swap_dims(x) == <<x[1], x[3], x[4], x[2]>>

\* jnp.moveaxis(x, -3, -1): the length axis goes to the back
moveaxis_back(x) ==
  [shape |-> swap_dims(x.shape),
   at |-> [i \in Idx(swap_dims(x.shape)) |-> x.at[<<i[1], i[4], i[2], i[3]>>]]]

\* jnp.moveaxis(x, -1, -3): the length axis returns to its natural place
moveaxis_front(x) ==
  [shape |-> <<x.shape[1], x.shape[4], x.shape[2], x.shape[3]>>,
   at |-> [i \in Idx(<<x.shape[1], x.shape[4], x.shape[2], x.shape[3]>>) |->
             x.at[<<i[1], i[3], i[4], i[2]>>]]]

\* Mutation: an index out of range is clamped to the last slot.
one_hot_Clamped(cur_index, length) ==
  [shape |-> <<1, 1, 1, length>>,
   at |-> [i \in Idx(<<1, 1, 1, length>>) |->
             IF i[4] = (IF cur_index > length - 1 THEN length - 1 ELSE cur_index)
             THEN 1 ELSE 0]]

\* jax.nn.one_hot(cur_index, length): all zero when cur_index is out of range.
\* A vector of `length` entries broadcasts against the last axis.
one_hot(cur_index, length) ==
  [shape |-> <<1, 1, 1, length>>,
   at |-> [i \in Idx(<<1, 1, 1, length>>) |-> IF i[4] = cur_index THEN 1 ELSE 0]]

\* ------------------------------------------------------------------ inputs
\* Projected key and value vector of each input token (head_dim = 2).
TokenKey == <<<<1, 0>>, <<0, 1>>, <<1, 1>>, <<0, 0>>>>

TokenValue == <<<<2, 1>>, <<1, 2>>, <<2, 2>>, <<0, 3>>>>

HeadDim == Len(TokenKey[1])

AllTokens == 1 .. Len(TokenKey)

\* Tokens fed by the sessions of Spec.
Tokens == {1, 4}

\* The projection of a token sequence toks (batch rows and heads alike):
\* shape [batch, Len(toks), heads, head_dim].
Projected(vec, batch, heads, toks) ==
  [shape |-> <<batch, Len(toks), heads, HeadDim>>,
         at |-> [i \in Idx(<<batch, Len(toks), heads, HeadDim>>) |->
                   vec[toks[i[2] + 1]][i[4] + 1]]]

\* The token sequence 1, 2, 3, 4, 1, ... of length n.
Cycle(n) == [p \in 1 .. n |-> ((p - 1) % Len(TokenKey)) + 1]

\* ------------------------------------------- layers.models (not in src/)
\* combine_masks: logical AND of the masks that are present.
combine_masks(m1, m2) ==
  IF IsNone(m1) THEN m2
  ELSE IF IsNone(m2) THEN m1
  ELSE [shape |-> BShape(m1.shape, m2.shape),
              at |-> [i \in Idx(BShape(m1.shape, m2.shape)) |->
                        IF m1.at[BIdx(i, m1.shape)] > 0 /\ m2.at[BIdx(i, m2.shape)] > 0
                         THEN 1 ELSE 0]]

\* combine_biases: sum of the biases that are present.
combine_biases(b1, b2) ==
  IF IsNone(b1) THEN b2 ELSE IF IsNone(b2) THEN b1 ELSE Add(b1, b2)

\* dynamic_vector_slice_in_dim(jnp.squeeze(bias, axis=0), [cur_index], 1, -2):
\* the row bias[..., cur_index:cur_index+1, :], the start clamped into range.
dynamic_vector_slice_in_dim(bias, cur_index) ==
  LET rows == bias.shape[3]
      row == IF cur_index > rows - 1 THEN rows - 1 ELSE cur_index
  IN [shape |-> <<1, bias.shape[2], 1, bias.shape[4]>>,
            at |-> [i \in Idx(<<1, bias.shape[2], 1, bias.shape[4]>>) |->
                      bias.at[<<0, i[2], row, i[4]>>]]]

\* ------------------------------- MultiHeadDotProductAttention.__call__
\* Stand-in for the sentinel -1e10 of line 226 (TLC integers are 32 bit).
NEG_SENTINEL == -1000000000

\* The session's cache collection before the first decode call.
NoCache ==
  [is_initialized |-> FALSE, cached_key |-> None, cached_value |-> None,
   cache_index |-> 0]

\* Mutation: the cache is prepared whatever the decode flag.
UsesCache_Always(decode) == TRUE

\* `if decode:` (line 150)
UsesCache(decode) == decode

\* self.variable('cache', ...) of lines 160-165 when the cache is absent:
\* zero-filled, time axis last, index 0.
AllocateCache(key, value) ==
  [is_initialized |-> TRUE,
   cached_key |-> zeros(swap_dims(key.shape)),
   cached_value |-> zeros(swap_dims(value.shape)),
   cache_index |-> 0]

\* expected_shape = (batch, 1, num_heads, head_dim) (lines 167-171)
expected_shape(cached) == <<cached.shape[1], 1, cached.shape[2], cached.shape[3]>>

\* Mutation: only the sequence length of the query is checked.
QueryShapeError_LengthOnly(cached, query_shape) == query_shape[2] # 1

\* `if expected_shape != query.shape: raise ValueError` (lines 172-175)
QueryShapeError(cached, query_shape) == expected_shape(cached) # query_shape

\* Mutation: the scatter forgets the cache's old content.
ScatterUpdate_Overwrite(cached, one_token, one_hot_indices) ==
  Mul(one_token, one_hot_indices)

\* cached.value + one_token * one_hot_indices (lines 189-190)
ScatterUpdate(cached, one_token, one_hot_indices) ==
  Add(cached, Mul(one_token, one_hot_indices))

\* The two broadcasts of lines 189-190 raise when the shapes do not broadcast.
ScatterError(cached, one_token, one_hot_indices) ==
  \/ ~Compatible(one_token.shape, one_hot_indices.shape)
  \/ ~Compatible(cached.shape, BShape(one_token.shape, one_hot_indices.shape))

\* Mutation: the index is not advanced.
NextIndex_Stuck(cur_index) == cur_index

\* cache_index.value + 1 (line 193)
NextIndex(cur_index) == cur_index + 1

\* Mutation: the causal mask leaves out the position cur_index itself.
CausalMask_Strict(batch, length, cur_index) ==
  [shape |-> <<batch, 1, 1, length>>,
   at |-> [i \in Idx(<<batch, 1, 1, length>>) |->
             IF i[4] < cur_index THEN 1 ELSE 0]]

\* Mutation: the causal mask also allows the position after cur_index.
CausalMask_OffByOne(batch, length, cur_index) ==
  [shape |-> <<batch, 1, 1, length>>,
   at |-> [i \in Idx(<<batch, 1, 1, length>>) |->
             IF i[4] <= cur_index + 1 THEN 1 ELSE 0]]

\* jnp.broadcast_to(jnp.arange(length) <= cur_index, (batch, 1, 1, length))
CausalMask(batch, length, cur_index) ==
  [shape |-> <<batch, 1, 1, length>>,
   at |-> [i \in Idx(<<batch, 1, 1, length>>) |->
             IF i[4] <= cur_index THEN 1 ELSE 0]]

\* lax.select(mask > 0, 0, -1e10), or None without a mask (lines 221-228)
MaskToBias(mask) ==
  IF IsNone(mask) THEN None
  ELSE [shape |-> mask.shape,
        at |-> [i \in Idx(mask.shape) |->
                  IF mask.at[i] > 0 THEN 0 ELSE NEG_SENTINEL]]

\* Mutation: the provided bias is not added.
AttentionBias_DropBias(mask, bias) == MaskToBias(mask)

\* attention_bias handed to apply_attention (lines 221-232)
AttentionBias(mask, bias) ==
  IF ~IsNone(bias) THEN combine_biases(MaskToBias(mask), bias) ELSE MaskToBias(mask)

\* Mutation: the error surfaces after the index was advanced.
Raise_AfterAdvance(c, err) ==
  [err |-> err,
   cache |-> [c EXCEPT !.cache_index = IF c.is_initialized THEN @ + 1 ELSE @],
   key |-> None, value |-> None, mask |-> None, attention_bias |-> None]

\* A call that raises: no new variables reach the caller.
Raise(c, err) ==
  [err |-> err, cache |-> c, key |-> None, value |-> None, mask |-> None,
   attention_bias |-> None]

\* What apply_attention receives (lines 220-240), with the cache c left behind.
Attend(c, key, value, mask, bias) ==
  IF \/ (~IsNone(mask) /\ ~IsNone(bias) /\ ~Compatible(mask.shape, bias.shape))
  THEN Raise(c, "broadcast")
  ELSE [err |-> "none", cache |-> c, key |-> key, value |-> value, mask |-> mask,
        attention_bias |-> AttentionBias(mask, bias)]

\* The branch `if is_initialized:` (lines 166-218): one decode step.
DecodeStep(c, a) ==
  LET batch == c.cached_key.shape[1]
      length == c.cached_key.shape[4]
      cur_index == c.cache_index
      one_hot_indices == one_hot(cur_index, length)
      one_token_key == moveaxis_back(a.key)
      one_token_value == moveaxis_back(a.value)
      causal == CausalMask(batch, length, cur_index)
  IN IF QueryShapeError(c.cached_key, a.query_shape) THEN Raise(c, "query_shape")
     ELSE IF \/ ScatterError(c.cached_key, one_token_key, one_hot_indices)
             \/ ScatterError(c.cached_value, one_token_value, one_hot_indices)
             \/ (~IsNone(a.mask) /\ ~Compatible(a.mask.shape, causal.shape))
             \/ (~IsNone(a.bias) /\ a.bias.shape[1] # 1)
     THEN Raise(c, "broadcast")
     ELSE LET key == ScatterUpdate(c.cached_key, one_token_key, one_hot_indices)
              value == ScatterUpdate(c.cached_value, one_token_value, one_hot_indices)
              mask == combine_masks(a.mask, causal)
              bias == IF ~IsNone(a.bias)
                      THEN dynamic_vector_slice_in_dim(a.bias, cur_index)
                      ELSE None
          IN Attend([is_initialized |-> TRUE, cached_key |-> key,
                     cached_value |-> value, cache_index |-> NextIndex(cur_index)],
                    moveaxis_front(key), moveaxis_front(value), mask, bias)

\* __call__ from line 150 on: a = [query_shape, key, value, mask, bias, decode].
Attention(c, a) ==
  IF UsesCache(a.decode)
  THEN IF c.is_initialized
       THEN DecodeStep(c, a)
       ELSE Attend(AllocateCache(a.key, a.value), a.key, a.value, a.mask, a.bias)
  ELSE Attend(c, a.key, a.value, a.mask, a.bias)

\* -------------------------------------------------- DecoderLayer.__call__
\* Activations of the layer are symbolic terms in prefix form.
Term1(f, x) == <<f>> \o x

Term2(f, x, y) == <<f>> \o x \o y

NoLayer ==
  [inputs |-> <<>>, lnx |-> <<>>, attention_lnx |-> <<>>, mlp_input |-> <<>>,
   residual |-> <<>>, layer_output |-> <<>>]

\* Lines 361-414: the activations of one call, up to the dropout of line 416.
DecoderLayer(inputs) ==
  LET residual0 == inputs
      lnx == Term1("pre_self_attention_norm", inputs)
      attention_lnx == Term2("self_attention", lnx, lnx)
      hidden_states0 == Term2("add", residual0, attention_lnx)
      residual == hidden_states0
      hidden_states1 == Term1("post_self_attention_layer_norm", hidden_states0)
      \* line 399 constrains lnx, not the normalised hidden_states
      hidden_states == lnx
      mlp_lnx == Term1("mlp", hidden_states)
  IN [inputs |-> inputs, lnx |-> lnx, attention_lnx |-> attention_lnx,
      mlp_input |-> hidden_states, residual |-> residual,
      layer_output |-> Term2("add", mlp_lnx, residual)]

\* ------------------------------------------------------------------- state
VARIABLES cache, fed, last

vars == <<cache, fed, last>>

\* cache: the session's 'cache' collection (cached_key, cached_value,
\*        cache_index; is_initialized = has_variable('cache', 'cached_key')).
\* fed:   the tokens of the decode steps completed since allocation, in call
\*        order (0 for a step whose key/value held more than one position).
\* last:  the latest call: its arguments and what it handed to apply_attention.

NoCall ==
  [op |-> "none", err |-> "none", decode |-> FALSE, query_shape |-> <<0, 0, 0, 0>>,
   kv_shape |-> <<0, 0, 0, 0>>, before |-> NoCache, mask_in |-> None,
   bias_in |-> None, key |-> None, value |-> None, mask |-> None,
   attention_bias |-> None, layer |-> NoLayer]

Call(op, c, a, r, layer) ==
  [op |-> op, err |-> r.err, decode |-> a.decode, query_shape |-> a.query_shape,
   kv_shape |-> a.key.shape, before |-> c, mask_in |-> a.mask, bias_in |-> a.bias,
   key |-> r.key, value |-> r.value, mask |-> r.mask,
   attention_bias |-> r.attention_bias,
   layer |-> IF r.err = "none" THEN layer ELSE NoLayer]

Init == cache = NoCache /\ fed = <<>> /\ last = NoCall

\* ------------------------------------------------------- caller's inputs
\* (batch, length, heads) of a full-sequence call.
FullShapes == {<<1, n, 1>> : n \in 1 .. MaxLen} \cup {<<2, 1, 2>>}

ScenarioShapes == {<<1, n, 1>> : n \in 1 .. ScenarioLen}

\* A caller's mask that allows the even key positions of every query row.
AltMask(batch, q_len, kv_len) ==
  [shape |-> <<batch, 1, q_len, kv_len>>,
   at |-> [i \in Idx(<<batch, 1, q_len, kv_len>>) |->
             IF i[4] % 2 = 0 THEN 1 ELSE 0]]

\* The causal mask a caller passes with a full sequence.
FullCausalMask(batch, len) ==
  [shape |-> <<batch, 1, len, len>>,
   at |-> [i \in Idx(<<batch, 1, len, len>>) |->
             IF i[4] <= i[3] THEN 1 ELSE 0]]

\* A caller's bias: a full attention matrix of distinct positive entries.
FullBias(heads, q_len, kv_len) ==
  [shape |-> <<1, heads, q_len, kv_len>>,
   at |-> [i \in Idx(<<1, heads, q_len, kv_len>>) |->
             1 + i[2] + 2 * (i[3] * kv_len + i[4])]]

\* What a caller passes as (mask, bias): nothing, a mask, a bias.
Passing == {"neither", "mask", "bias"}

Args(decode, query_shape, kv_batch, toks, mask, bias) ==
  [decode |-> decode, query_shape |-> query_shape,
   key |-> Projected(TokenKey, kv_batch, query_shape[3], toks),
   value |-> Projected(TokenValue, kv_batch, query_shape[3], toks),
   mask |-> mask, bias |-> bias]

\* Full-sequence calls: inputs_q = inputs_kv of the shape s.
FullArgs(decode, shapes, passing) ==
  { Args(decode, <<s[1], s[2], s[3], HeadDim>>, s[1], Cycle(s[2]),
         IF p = "mask" THEN FullCausalMask(s[1], s[2]) ELSE None,
         IF p = "bias" THEN FullBias(s[3], s[2], s[2]) ELSE None) :
      s \in shapes, p \in passing }

\* Single-token decode steps that fit the cache c.
WellFormedSteps(c, toks, passing) ==
  LET es == expected_shape(c.cached_key)
      length == c.cached_key.shape[4]
  IN { Args(TRUE, es, es[1], <<t>>,
            IF p = "mask" THEN AltMask(es[1], 1, length) ELSE None,
            IF p = "bias" THEN FullBias(es[3], length, length) ELSE None) :
         t \in toks, p \in passing }

\* Decode steps whose query, or whose key/value, does not have the shape
\* [batch, 1, heads, head_dim] of one position of the cache c: one dimension
\* of the query is off, or the key/value holds more than one position.
MalformedSteps(c) ==
  LET es == expected_shape(c.cached_key)
      other(n) == IF n = 1 THEN 2 ELSE 1
  IN { Args(TRUE, q, q[1], Cycle(q[2]), None, None) :
         q \in {<<other(es[1]), 1, es[3], es[4]>>, <<es[1], 2, es[3], es[4]>>,
                <<es[1], 1, other(es[3]), es[4]>>} }
     \cup { Args(TRUE, es, es[1], Cycle(n), None, None) : n \in 2 .. MaxLen }

\* The argument sets of the calls of Spec.
PrimeArgs ==
  FullArgs(FALSE, FullShapes, {"neither"}) \cup FullArgs(FALSE, {<<1, 2, 1>>}, Passing)

AllocateArgs == FullArgs(TRUE, FullShapes, Passing)

LayerPrimeArgs == FullArgs(FALSE, {<<1, 2, 1>>}, {"neither"})

LayerAllocateArgs == FullArgs(TRUE, FullShapes, {"neither"})

ScenarioAllocateArgs == FullArgs(TRUE, ScenarioShapes, {"neither"})

LayerInputs == {<<"inputs">>}

\* ----------------------------------------------------------------- actions
MayStep == cache.is_initialized /\ cache.cache_index < cache.cached_key.shape[4] + MaxOverrun

\* First decode=true call of the session: no cached_key variable yet.
Allocate(S) ==
  /\ ~cache.is_initialized
  /\ \E a \in S :
       LET r == Attention(cache, a)
       IN /\ cache' = r.cache
          /\ fed' = <<>>
          /\ last' = Call("allocate", cache, a, r, NoLayer)

\* A decode=true call on an allocated cache.
Step(S) ==
  /\ MayStep
  /\ \E a \in S :
       LET r == Attention(cache, a)
       IN /\ cache' = r.cache
          /\ fed' = IF r.err = "none"
                    THEN Append(fed, [key |-> a.key, value |-> a.value])
                    ELSE fed
          /\ last' = Call("decode_step", cache, a, r, NoLayer)

\* A decode=false call.
Prime(S) ==
  \E a \in S :
    LET r == Attention(cache, a)
    IN /\ cache' = r.cache
       /\ fed' = fed
       /\ last' = Call("prime", cache, a, r, NoLayer)

\* DecoderLayer.__call__: self-attention on (lnx, lnx) with bias = None.
Layer ==
  \E x \in LayerInputs, decode \in BOOLEAN :
    /\ decode /\ cache.is_initialized => MayStep
    /\ \E a \in IF ~decode THEN LayerPrimeArgs
                ELSE IF ~cache.is_initialized THEN LayerAllocateArgs
                ELSE WellFormedSteps(cache, Tokens, {"neither"}) :
         LET r == Attention(cache, a)
         IN /\ cache' = r.cache
            /\ fed' = IF ~decode THEN fed
                      ELSE IF ~cache.is_initialized THEN <<>>
                      ELSE IF r.err = "none"
                           THEN Append(fed, [key |-> a.key, value |-> a.value])
                           ELSE fed
            /\ last' = Call("decoder_layer", cache, a, r, DecoderLayer(x))

Next ==
  \/ Allocate(AllocateArgs)
  \/ Step(WellFormedSteps(cache, Tokens, Passing) \cup MalformedSteps(cache))
  \/ Prime(PrimeArgs)
  \/ Layer

Spec == Init /\ [][Next]_vars

\* Sessions of well-formed single-token steps over all four tokens.
ScenarioNext ==
  \/ Allocate(ScenarioAllocateArgs)
  \/ Step(WellFormedSteps(cache, AllTokens, {"neither"}))

ScenarioSpec == Init /\ [][ScenarioNext]_vars

\* ------------------------------------------------------------------ claims
\* The latest call was a decode step: decode=true on an allocated cache.
IsStep == last.op \in {"decode_step", "decoder_layer"} /\ last.decode /\ last.before.is_initialized

StepDone == IsStep /\ last.err = "none"

\* The [batch, heads, head_dim] block of a time-last tensor at time t, and of
\* a natural-layout tensor at position p.
Slot(x, t) ==
  [i \in (0 .. x.shape[1] - 1) \X (0 .. x.shape[2] - 1) \X (0 .. x.shape[3] - 1) |->
     x.at[<<i[1], i[2], i[3], t>>]]

Position(x, p) ==
  [i \in (0 .. x.shape[1] - 1) \X (0 .. x.shape[3] - 1) \X (0 .. x.shape[4] - 1) |->
     x.at[<<i[1], p, i[2], i[3]>>]]

Length == cache.cached_key.shape[4]

\* Every step since allocation fed one position of the cache's shape.
SingleTokenSession ==
  /\ cache.is_initialized
  /\ \A n \in 1 .. Len(fed) :
       /\ fed[n].key.shape = expected_shape(cache.cached_key)
       /\ fed[n].value.shape = expected_shape(cache.cached_value)

\* C1: after L sequential single-token decode steps on a fresh cache of time
\* length L, cache_index = L and slot t of cached_key / cached_value holds the
\* key / value of step t, for every t < L.
C1_SequentialFill ==
  (SingleTokenSession /\ Len(fed) = Length) =>
    /\ cache.cache_index = Length
    /\ \A t \in 0 .. Length - 1 :
         /\ Slot(cache.cached_key, t) = Position(fed[t + 1].key, 0)
         /\ Slot(cache.cached_value, t) = Position(fed[t + 1].value, 0)

\* C1 witness: the keys [1,0],[0,1],[1,1],[0,0] fed to a cache of length 4.
C1_Witness ==
  /\ SingleTokenSession /\ Length = 4 /\ Len(fed) = 4
  /\ \A t \in 1 .. 4 : fed[t].key = Projected(TokenKey, 1, 1, <<t>>)
  /\ cache.cache_index = 4
  /\ moveaxis_front(cache.cached_key) = Projected(TokenKey, 1, 1, <<1, 2, 3, 4>>)

\* C2 as claimed: on an allocated cache, 0 <= cache_index < max_length.
C2_IndexBelowLength ==
  cache.is_initialized => (0 <= cache.cache_index /\ cache.cache_index < Length)

\* C2 amended: cache_index is never negative and equals the number of decode
\* steps completed since allocation.
C2_IndexCountsSteps ==
  /\ 0 <= cache.cache_index
  /\ cache.cache_index = Len(fed)

\* C2 witness: max_length steps were completed and cache_index = max_length.
C2_Witness ==
  cache.is_initialized /\ Len(fed) = Length /\ cache.cache_index = Length /\ Length >= 2

\* C3: a decode=false call leaves the cache collection as it found it: no
\* variable created, cached_key, cached_value and cache_index unchanged.
C3_PrimeKeepsCache ==
  (last.op # "none" /\ ~last.decode) => cache = last.before

\* C3 witness: a decode=false call of sequence length 3 on a cache at index 2.
C3_Witness ==
  /\ last.op = "prime" /\ last.err = "none" /\ last.query_shape[2] = 3
  /\ last.before.is_initialized /\ last.before.cache_index = 2

C5_QueryShapeChecked ==
  (IsStep /\ last.query_shape # expected_shape(last.before.cached_key)) =>
    last.err = "query_shape"

\* C5 witness: a query of sequence length 2 was refused.
C5_Witness ==
  /\ IsStep /\ last.err = "query_shape" /\ last.query_shape[2] = 2
  /\ last.before.cache_index >= 1

\* C6 as claimed: a decode step whose key/value holds more than one position
\* raises, also when the query has sequence length 1.
C6_KeyLengthChecked ==
  (IsStep /\ last.kv_shape[2] # 1) => last.err # "none"

\* C7 as claimed: every cache slot at a time position >= cache_index is zero.
C7_TailIsZero ==
  cache.is_initialized =>
    \A i \in Idx(cache.cached_key.shape) :
      i[4] >= cache.cache_index =>
        (cache.cached_key.at[i] = 0 /\ cache.cached_value.at[i] = 0)

\* The session's step keys (which = 1) or values (which = 2) in call order,
\* padded to the cache's length with the vector vec: shape [batch, length,
\* heads, head_dim].
Sequence(which, vec) ==
  LET s == <<cache.cached_key.shape[1], Length, cache.cached_key.shape[2],
             cache.cached_key.shape[3]>>
  IN [shape |-> s,
      at |-> [i \in Idx(s) |->
                IF i[2] < Len(fed)
                THEN (IF which = 1 THEN fed[i[2] + 1].key ELSE fed[i[2] + 1].value).at[
                       <<i[1], 0, i[3], i[4]>>]
                ELSE vec[i[4] + 1]]]

\* One decode=false call over the whole sequence under a causal mask.
FullCall(pad) ==
  LET key == Sequence(1, TokenKey[pad])
      value == Sequence(2, TokenValue[pad])
  IN Attention(NoCache,
               [decode |-> FALSE, query_shape |-> key.shape, key |-> key,
                value |-> value, mask |-> FullCausalMask(key.shape[1], key.shape[2]),
                bias |-> None])

\* C8: decode step t of a session of single-token steps hands apply_attention
\* what row t of the causal full-sequence call hands it: the same attended
\* positions, the same bias row, and at every attended position the same key
\* and value, whatever the tokens after t.
C8_StepMatchesFullRow ==
  (StepDone /\ SingleTokenSession /\ last.before.cache_index < Length
     /\ IsNone(last.mask_in) /\ IsNone(last.bias_in)) =>
    \A pad \in AllTokens :
      LET t == last.before.cache_index
          full == FullCall(pad)
      IN /\ full.err = "none"
         /\ last.key.shape = full.key.shape
         /\ last.value.shape = full.value.shape
         /\ \A i \in Idx(last.mask.shape) :
              LET j == <<i[1], 0, t, i[4]>>
              IN /\ (last.mask.at[i] > 0) <=> (full.mask.at[j] > 0)
                 /\ last.attention_bias.at[i] = full.attention_bias.at[j]
                 /\ last.mask.at[i] > 0 =>
                      /\ Position(last.key, i[4]) = Position(full.key, i[4])
                      /\ Position(last.value, i[4]) = Position(full.value, i[4])

\* C8 witness: step 1 of a session of length 4 that fed two different keys.
C8_Witness ==
  /\ StepDone /\ SingleTokenSession /\ Length = 4 /\ last.before.cache_index = 1
  /\ Len(fed) = 2 /\ fed[1].key # fed[2].key

C10_LayerDataFlow ==
  (last.op = "decoder_layer" /\ last.err = "none") =>
    LET sum == Term2("add", last.layer.inputs, last.layer.attention_lnx)
    IN /\ last.layer.mlp_input = Term1("post_self_attention_layer_norm", sum)
       /\ last.layer.layer_output = Term2("add", Term1("mlp", last.layer.mlp_input), sum)

\* The latest call was a decode step whose query, key and value each hold
\* one position of the cache's shape.
WellShapedStep ==
  /\ IsStep
  /\ last.query_shape = expected_shape(last.before.cached_key)
  /\ last.kv_shape = expected_shape(last.before.cached_key)

\* C11: a well-shaped decode step on a full cache (cache_index >= max_length)
\* raises nothing, leaves cached_key and cached_value as they were, advances
\* cache_index by 1, and its causal mask allows every key position: the mask
\* handed on is true wherever the caller's mask, if any, is.
C11_FullCacheStep ==
  (WellShapedStep /\ last.before.cache_index >= last.before.cached_key.shape[4]) =>
    /\ last.err = "none"
    /\ cache.cached_key = last.before.cached_key
    /\ cache.cached_value = last.before.cached_value
    /\ cache.cache_index = last.before.cache_index + 1
    /\ \A i \in Idx(last.mask.shape) :
         last.mask.at[i] > 0 <=>
           (IsNone(last.mask_in) \/ last.mask_in.at[BIdx(i, last.mask_in.shape)] > 0)

\* C11 witness: the non-zero key [1,0] fed to a full cache of length 2.
C11_Witness ==
  /\ WellShapedStep /\ last.err = "none"
  /\ last.before.cached_key.shape[4] = 2 /\ last.before.cache_index = 2
  /\ fed[Len(fed)].key = Projected(TokenKey, 1, 1, <<1>>)
  /\ cache.cache_index = 3

\* The step just taken changed cached tensor `after` from `before` at time
\* slot t only, adding the fed tensor's single position to it (lines 189-190).
WroteSlot(before, after, fedTensor, t) ==
  /\ after.shape = before.shape
  /\ \A i \in Idx(before.shape) :
       after.at[i] = before.at[i]
                     + (IF i[4] = t THEN fedTensor.at[<<i[1], 0, i[2], i[3]>>] ELSE 0)

\* C12: a decode step that fails its query shape check changes nothing:
\* cached_key, cached_value and cache_index (and the record of what was fed)
\* are after the call what they were before it, and the well-shaped step that
\* follows starts from the state the failed call started from, advances its
\* cache_index by 1 and writes its key and value to the slot at that state's
\* cache_index and to no other.
C12_FailedStepKeepsState ==
  [][/\ (IsStep' /\ last'.err = "query_shape") =>
          /\ cache' = cache
          /\ fed' = fed
          /\ last'.before = cache
     /\ (/\ IsStep /\ last.err = "query_shape"
         /\ WellShapedStep' /\ last'.op = "decode_step" /\ last'.err = "none") =>
          /\ last'.before = last.before
          /\ cache'.cache_index = last.before.cache_index + 1
          /\ WroteSlot(last.before.cached_key, cache'.cached_key,
                       fed'[Len(fed')].key, last.before.cache_index)
          /\ WroteSlot(last.before.cached_value, cache'.cached_value,
                       fed'[Len(fed')].value, last.before.cache_index)]_vars

\* C12 witness: a two-position query refused after one step on a cache of
\* length 3, with slot 0 still holding that step's key and slot 1 still free.
C12_Witness ==
  /\ IsStep /\ last.err = "query_shape" /\ last.query_shape[2] = 2
  /\ Length = 3 /\ Len(fed) = 1
  /\ cache = last.before /\ cache.cache_index = 1
  /\ Slot(cache.cached_key, 0) = Position(fed[1].key, 0)

\* C13 as claimed: a decode=true call without a cache only allocates: it
\* raises nothing whatever the query's length, leaves cached_key and
\* cached_value zero-filled with the call's key length as time length and
\* cache_index = 0, and hands on the caller's mask with no causal mask added;
\* every decode=true call on an allocated cache takes the step path: the
\* query shape is checked, and the cache keeps its shape and the content of
\* the slots below cache_index.
C13_AllocateOnce ==
  (last.op # "none" /\ last.decode) =>
    IF ~last.before.is_initialized
    THEN /\ last.err = "none"
         /\ cache.is_initialized
         /\ cache.cached_key = zeros(swap_dims(last.kv_shape))
         /\ cache.cached_value = zeros(swap_dims(last.kv_shape))
         /\ cache.cache_index = 0
         /\ last.mask.shape = last.mask_in.shape
         /\ last.mask = last.mask_in
    ELSE /\ (last.err = "query_shape") <=>
              (last.query_shape # expected_shape(last.before.cached_key))
         /\ cache.is_initialized
         /\ cache.cached_key.shape = last.before.cached_key.shape
         /\ cache.cached_value.shape = last.before.cached_value.shape
         /\ \A i \in Idx(cache.cached_key.shape) :
              i[4] < last.before.cache_index =>
                /\ cache.cached_key.at[i] = last.before.cached_key.at[i]
                /\ cache.cached_value.at[i] = last.before.cached_value.at[i]

\* The part of C13 that is about the allocating call alone.
C13_AllocatingCall ==
  (last.op # "none" /\ last.decode /\ ~last.before.is_initialized) => C13_AllocateOnce

\* The part of C13 that is about later calls, in sessions whose steps each
\* feed a single position.
C13_SingleTokenLater ==
  (last.op # "none" /\ last.decode /\ last.before.is_initialized
     /\ last.kv_shape = expected_shape(last.before.cached_key)) => C13_AllocateOnce

====
